---- MODULE Spec2Model ----
(***************************************************************************)
(* mlir-auto-init.cpp: a namespace-scope                                   *)
(*                                                                         *)
(*     static bool auto_init = []() {                                      *)
(*       registerAllDialects();                                            *)
(*       registerAllPasses();                                              *)
(*       return true;                                                      *)
(*     }();                                                                *)
(*                                                                         *)
(* The model follows one process from the start of static initialization   *)
(* to the end of main.  Every linked copy of the object file has its own   *)
(* auto_init (the variable is static, so it has internal linkage) and its  *)
(* own initializer; the two registries are process-wide and are shared by  *)
(* all copies.  registerAllDialects and registerAllPasses live outside the *)
(* file: a call either returns, having registered every built-in, or does  *)
(* not return (it throws or aborts); the lambda has no handler, so a call  *)
(* that does not return ends the process before main.                      *)
(***************************************************************************)
EXTENDS Naturals, Sequences, FiniteSets

(* Bounds of the model. *)
MaxCopies == 2      \* linked copies of the object file: 1..MaxCopies
MaxBuiltins == 2    \* built-in dialect (pass) identifiers: 1..MaxBuiltins
MaxCustom == 1      \* identifiers other code registers explicitly
MaxOther == 1       \* writes of user code to the rest of the process state

BuiltinIds == 1..MaxBuiltins
CustomIds == (MaxBuiltins + 1)..(MaxBuiltins + MaxCustom)

VARIABLES
  copies,            \* number of linked copies of the object file
  allDialects,       \* the built-in dialects of the linked framework
  allPasses,         \* the built-in passes of the linked framework
  pc,                \* where the process is
  cur,               \* the copy whose initializer is running (0: none)
  ip,                \* the next statement of the lambda (0: not in it)
  ret,               \* the value the running lambda returned
  done,              \* the copies whose initializer has completed
  auto_init,         \* auto_init of each copy (zero-initialized: FALSE)
  writes,            \* number of dynamic writes to each copy's auto_init
  dialectRegistry,   \* the process-wide dialect registry
  passRegistry,      \* the process-wide pass registry
  nDialectCalls,     \* invocations of registerAllDialects so far
  nPassCalls,        \* invocations of registerAllPasses so far
  explicitDialects,  \* dialects registered explicitly by other code
  explicitPasses,    \* passes registered explicitly by other code
  other              \* the rest of the process state

vars == <<copies, allDialects, allPasses, pc, cur, ip, ret, done, auto_init,
          writes, dialectRegistry, passRegistry, nDialectCalls, nPassCalls,
          explicitDialects, explicitPasses, other>>

config == <<copies, allDialects, allPasses>>
shimState == <<cur, ip, ret, done, auto_init, writes>>
registries == <<dialectRegistry, passRegistry, nDialectCalls, nPassCalls>>
userState == <<explicitDialects, explicitPasses, other>>

Copies == 1..copies

(* The statements of the lambda, in program order (lines 12, 13, 15). *)
LambdaBody_DropPasses == <<"registerAllDialects", "return">>
LambdaBody_DropDialects == <<"registerAllPasses", "return">>
LambdaBody_Swapped == <<"registerAllPasses", "registerAllDialects", "return">>
LambdaBody_Twice ==
  <<"registerAllDialects", "registerAllDialects", "registerAllPasses", "return">>
LambdaBody == <<"registerAllDialects", "registerAllPasses", "return">>

(* The value of the return statement (line 15). *)
ReturnValue_False == FALSE
ReturnValue == TRUE

(* What a lambda statement leaves alone: everything but the registries. *)
LambdaFrame_Touches ==
  /\ other' = (other + 1) % (MaxOther + 1)
  /\ UNCHANGED <<explicitDialects, explicitPasses>>
LambdaFrame == UNCHANGED userState

(* What happens when a registration call does not return: nothing in the   *)
(* lambda catches it, so the process ends during static initialization.    *)
Unhandled_Swallowed == pc' = "lambda" /\ ip' = ip + 1 /\ UNCHANGED <<cur>>
Unhandled == pc' = "terminated" /\ UNCHANGED <<cur, ip>>

(* The effect of a registration entry point that returns. *)
RegisterAll(registry, builtins) == registry \cup builtins

Init ==
  /\ copies \in 1..MaxCopies
  /\ allDialects \in (SUBSET BuiltinIds) \ {{}}
  /\ allPasses \in (SUBSET BuiltinIds) \ {{}}
  /\ pc = "startup"
  /\ cur = 0
  /\ ip = 0
  /\ ret = FALSE
  /\ done = {}
  /\ auto_init = [c \in Copies |-> FALSE]
  /\ writes = [c \in Copies |-> 0]
  /\ dialectRegistry = {}
  /\ passRegistry = {}
  /\ nDialectCalls = 0
  /\ nPassCalls = 0
  /\ explicitDialects = {}
  /\ explicitPasses = {}
  /\ other = 0

(* The startup runtime begins the dynamic initialization of one copy's     *)
(* auto_init; the order among static initializers is unspecified.          *)
StartInitializer ==
  /\ pc = "startup"
  /\ \E c \in Copies \ done :
       /\ cur' = c
       /\ ip' = 1
       /\ pc' = "lambda"
  /\ UNCHANGED <<config, ret, done, auto_init, writes, registries, userState>>

(* Line 12: registerAllDialects() is called and returns. *)
CallRegisterAllDialects ==
  /\ pc = "lambda"
  /\ LambdaBody[ip] = "registerAllDialects"
  /\ dialectRegistry' = RegisterAll(dialectRegistry, allDialects)
  /\ nDialectCalls' = nDialectCalls + 1
  /\ ip' = ip + 1
  /\ LambdaFrame
  /\ UNCHANGED <<config, pc, cur, ret, done, auto_init, writes,
                 passRegistry, nPassCalls>>

(* Line 12: registerAllDialects() is called and does not return; it may    *)
(* have registered some of the dialects before it gave up.                 *)
FailRegisterAllDialects ==
  /\ pc = "lambda"
  /\ LambdaBody[ip] = "registerAllDialects"
  /\ \E part \in SUBSET allDialects :
       /\ part # allDialects
       /\ dialectRegistry' = dialectRegistry \cup part
  /\ nDialectCalls' = nDialectCalls + 1
  /\ Unhandled
  /\ LambdaFrame
  /\ UNCHANGED <<config, ret, done, auto_init, writes, passRegistry, nPassCalls>>

(* Line 13: registerAllPasses() is called and returns. *)
CallRegisterAllPasses ==
  /\ pc = "lambda"
  /\ LambdaBody[ip] = "registerAllPasses"
  /\ passRegistry' = RegisterAll(passRegistry, allPasses)
  /\ nPassCalls' = nPassCalls + 1
  /\ ip' = ip + 1
  /\ LambdaFrame
  /\ UNCHANGED <<config, pc, cur, ret, done, auto_init, writes,
                 dialectRegistry, nDialectCalls>>

(* Line 13: registerAllPasses() is called and does not return. *)
FailRegisterAllPasses ==
  /\ pc = "lambda"
  /\ LambdaBody[ip] = "registerAllPasses"
  /\ \E part \in SUBSET allPasses :
       /\ part # allPasses
       /\ passRegistry' = passRegistry \cup part
  /\ nPassCalls' = nPassCalls + 1
  /\ Unhandled
  /\ LambdaFrame
  /\ UNCHANGED <<config, ret, done, auto_init, writes,
                 dialectRegistry, nDialectCalls>>

(* Line 15: return true. *)
Return ==
  /\ pc = "lambda"
  /\ LambdaBody[ip] = "return"
  /\ ret' = ReturnValue
  /\ pc' = "store"
  /\ ip' = 0
  /\ LambdaFrame
  /\ UNCHANGED <<config, cur, done, auto_init, writes, registries>>

(* Lines 11 and 16: the lambda's result initializes this copy's auto_init. *)
StoreAutoInit ==
  /\ pc = "store"
  /\ auto_init' = [auto_init EXCEPT ![cur] = ret]
  /\ writes' = [writes EXCEPT ![cur] = @ + 1]
  /\ done' = done \cup {cur}
  /\ cur' = 0
  /\ ret' = FALSE
  /\ pc' = "startup"
  /\ LambdaFrame
  /\ UNCHANGED <<config, ip, registries>>

(* Another translation unit's static initializer registers a dialect or a  *)
(* pass of its own.  Initializers run one after the other, so this happens *)
(* between two initializers, never inside the lambda.                      *)
OtherInitializer ==
  /\ pc = "startup"
  /\ \/ \E d \in CustomIds \ explicitDialects :
          /\ dialectRegistry' = dialectRegistry \cup {d}
          /\ explicitDialects' = explicitDialects \cup {d}
          /\ UNCHANGED <<passRegistry, explicitPasses>>
     \/ \E p \in CustomIds \ explicitPasses :
          /\ passRegistry' = passRegistry \cup {p}
          /\ explicitPasses' = explicitPasses \cup {p}
          /\ UNCHANGED <<dialectRegistry, explicitDialects>>
  /\ UNCHANGED <<config, pc, shimState, nDialectCalls, nPassCalls, other>>

(* Static initialization is complete: main starts. *)
EnterMain ==
  /\ pc = "startup"
  /\ done = Copies
  /\ pc' = "main"
  /\ UNCHANGED <<config, shimState, registries, userState>>

(* User code in main registers a dialect or a pass of its own. *)
UserRegister ==
  /\ pc = "main"
  /\ \/ \E d \in CustomIds \ explicitDialects :
          /\ dialectRegistry' = dialectRegistry \cup {d}
          /\ explicitDialects' = explicitDialects \cup {d}
          /\ UNCHANGED <<passRegistry, explicitPasses>>
     \/ \E p \in CustomIds \ explicitPasses :
          /\ passRegistry' = passRegistry \cup {p}
          /\ explicitPasses' = explicitPasses \cup {p}
          /\ UNCHANGED <<dialectRegistry, explicitDialects>>
  /\ UNCHANGED <<config, pc, shimState, nDialectCalls, nPassCalls, other>>

(* User code in main changes some other state of the process. *)
UserStep ==
  /\ pc = "main"
  /\ other < MaxOther
  /\ other' = other + 1
  /\ UNCHANGED <<config, pc, shimState, registries, explicitDialects, explicitPasses>>

(* main returns. *)
ExitMain ==
  /\ pc = "main"
  /\ pc' = "exited"
  /\ UNCHANGED <<config, shimState, registries, userState>>

InitializerStep ==
  \/ CallRegisterAllDialects
  \/ CallRegisterAllPasses
  \/ Return
  \/ StoreAutoInit

Next ==
  \/ StartInitializer
  \/ CallRegisterAllDialects
  \/ FailRegisterAllDialects
  \/ CallRegisterAllPasses
  \/ FailRegisterAllPasses
  \/ Return
  \/ StoreAutoInit
  \/ OtherInitializer
  \/ EnterMain
  \/ UserRegister
  \/ UserStep
  \/ ExitMain

Spec == Init /\ [][Next]_vars

(* The startup runtime runs every initializer to completion and then calls *)
(* main; nothing before main blocks or waits.                              *)
LiveSpec ==
  /\ Init
  /\ [][Next]_vars
  /\ WF_vars(StartInitializer)
  /\ WF_vars(InitializerStep)
  /\ WF_vars(EnterMain)

(***************************************************************************)
(* Properties                                                              *)
(***************************************************************************)

DialectsPopulated == allDialects \subseteq dialectRegistry
PassesPopulated == allPasses \subseteq passRegistry
Registered == DialectsPopulated /\ PassesPopulated
MainStarted == pc \in {"main", "exited"}
InInitializer == pc \in {"lambda", "store"}

(* C1: whenever main is running, the static initialization of every linked *)
(* copy's auto_init has completed and each registry holds exactly the      *)
(* built-ins of the linked framework, besides what other code registered   *)
(* explicitly: never an empty or partly populated registry.                *)
C1_MainSeesFullRegistries ==
  pc = "main" =>
    /\ done = Copies
    /\ \A c \in Copies : writes[c] = 1
    /\ dialectRegistry = allDialects \cup explicitDialects
    /\ passRegistry = allPasses \cup explicitPasses
    /\ dialectRegistry # {} /\ passRegistry # {}

C1_Witness ==
  /\ pc = "main"
  /\ copies = 1
  /\ allDialects = BuiltinIds /\ dialectRegistry = BuiltinIds
  /\ allPasses = BuiltinIds /\ passRegistry = BuiltinIds

(* C2 as stated: registerAllDialects and registerAllPasses are each        *)
(* invoked at most once per process.                                       *)
C2_OncePerProcess == nDialectCalls <= 1 /\ nPassCalls <= 1

(* C2, amended: each linked copy of the shim invokes registerAllDialects   *)
(* and registerAllPasses once and never again, so a process with one copy  *)
(* invokes each exactly once and a process with n copies n times; once     *)
(* both registries are populated no later step unpopulates them.           *)
C2_OncePerCopy ==
  /\ [](/\ nDialectCalls <= copies
        /\ nPassCalls <= copies
        /\ MainStarted => (nDialectCalls = copies /\ nPassCalls = copies))
  /\ [][Registered => Registered']_vars

C2_Witness ==
  /\ pc = "main"
  /\ copies = 2
  /\ nDialectCalls = 2
  /\ nPassCalls = 2
  /\ Registered

(* C5: a step of the initializer (a registration call, returning or not,   *)
(* the return statement, the store into auto_init) leaves every piece of   *)
(* process state unchanged except the two registries and the flag: the     *)
(* rest of the process state, what other code registered, and the linked   *)
(* configuration all keep their values.                                    *)
C5_InitializerFrame ==
  [][InInitializer => UNCHANGED <<other, explicitDialects, explicitPasses, config>>]_vars

C5_Witness ==
  /\ pc = "store"
  /\ Registered
  /\ explicitDialects # {}
  /\ explicitPasses # {}

(* C6: registerAllDialects returns before registerAllPasses is called:     *)
(* whenever registerAllPasses has been invoked, or the pass registry holds *)
(* a built-in pass, every built-in dialect is already registered, and      *)
(* registerAllPasses has never been invoked more often than                *)
(* registerAllDialects.                                                    *)
C6_DialectsBeforePasses ==
  /\ nPassCalls <= nDialectCalls
  /\ (nPassCalls > 0 \/ passRegistry \cap BuiltinIds # {}) => DialectsPopulated

C6_Witness ==
  /\ pc = "lambda"
  /\ nPassCalls = 1
  /\ PassesPopulated
  /\ DialectsPopulated

(* C7: wherever code other than the initializer can run (between static    *)
(* initializers and in main), the dialect registry is populated exactly    *)
(* when the pass registry is: a registration call that does not return     *)
(* ends the process, so a half-done registration is never observed.  The   *)
(* calls are not retried: each was invoked once per copy that got to it.   *)
C7_NoObservablePartialRegistration ==
  /\ pc \in {"startup", "main", "exited"} =>
       /\ DialectsPopulated <=> PassesPopulated
       /\ nDialectCalls = Cardinality(done)
       /\ nPassCalls = Cardinality(done)
  /\ MainStarted => Registered

C7_Witness ==
  /\ pc = "terminated"
  /\ DialectsPopulated
  /\ ~PassesPopulated
  /\ nDialectCalls = 1
  /\ nPassCalls = 1

(* C8: if no registration call fails to return, main eventually starts     *)
(* with both registries populated; and while an initializer runs, only its *)
(* own statements take steps.                                              *)
C8_InitializerTerminates ==
  /\ ([](pc # "terminated")) => <>(pc = "main" /\ Registered /\ done = Copies)
  /\ [][InInitializer => (InInitializer' \/ pc' \in {"startup", "terminated"})]_vars
  /\ [][InInitializer => UNCHANGED <<explicitDialects, explicitPasses, other>>]_vars

C8_Witness ==
  /\ pc = "main"
  /\ copies = MaxCopies
  /\ Registered
  /\ done = Copies

(* C9: each auto_init is written at most once, every auto_init has been    *)
(* written exactly once when main runs, the value written is true, and a   *)
(* flag that is true stays true in every later step.                       *)
C9_FlagWrittenOnce ==
  /\ [](\A c \in Copies :
          /\ writes[c] <= 1
          /\ writes[c] = 1 <=> auto_init[c]
          /\ MainStarted => writes[c] = 1)
  /\ [][\A c \in Copies : auto_init[c] => auto_init'[c] /\ writes'[c] = writes[c]]_vars

C9_Witness ==
  /\ pc = "exited"
  /\ copies = 2
  /\ \A c \in Copies : auto_init[c] /\ writes[c] = 1

(* C10: a copy's auto_init is true only after both registration calls of   *)
(* that copy's initializer have returned: the flag being true implies both *)
(* registries hold every built-in and that copy's initializer is neither   *)
(* running nor yet to run.                                                 *)
C10_FlagImpliesRegistered ==
  \A c \in Copies :
    auto_init[c] =>
      /\ Registered
      /\ c \in done
      /\ cur # c
      /\ nDialectCalls >= 1 /\ nPassCalls >= 1

C10_Witness ==
  /\ copies = 2
  /\ pc = "lambda"
  /\ \E c \in Copies : auto_init[c]
  /\ \E c \in Copies : ~auto_init[c]

====
